---- MODULE Spec2Model ----
(***************************************************************************)
(* Model of the embedded SSH client (GoCryptoClient / goCryptoCommand):    *)
(* lazily established sessions, proxy-command tunnelling and the           *)
(* process-like lifecycle Start / Wait / Kill / Close / SetStdio / pipes.  *)
(* Strings are sequences of one-character strings.                         *)
(***************************************************************************)
EXTENDS Integers, Sequences, FiniteSets, TLC

\* ------------------------------------------------------------------ bounds
MaxDials == 2
\* Longest host string the helper functions are applied to.
MaxLen == 3

\* ------------------------------------------------------- program constants
sshDefaultPort == 22

\* ------------------------------------------------------------ environment
\* Name of the invoking OS account, as user.Current() reports it.
CurrentUsername == <<"o">>
\* The signers NewGoCryptoClient is given (client) and the signers the
\* default key source yields (default).
KeyChoices ==
    {[client |-> <<>>, default |-> <<>>],
     [client |-> <<>>, default |-> <<"k0">>],
     [client |-> <<"k1">>, default |-> <<"k0">>]}
\* The calls made to Command: host string, command argv and whether the
\* Options value is passed (FALSE is a nil options pointer).
CommandCalls ==
    {[host |-> <<"r","@","d","b">>, argv |-> <<>>, withOptions |-> TRUE],
     [host |-> <<"w">>, argv |-> <<<<"e">>, <<"h","i">>>>, withOptions |-> TRUE],
     [host |-> <<"w">>, argv |-> <<<<"e">>, <<"h","i">>>>, withOptions |-> FALSE]}
\* A proxy-command template.
ProxyTemplate == <<<<"n","c">>, <<"%","h">>, <<"%","p">>, <<"%","r">>>>
\* The Options values callers build (port 0 = unset, empty template = unset).
OptionsChoices ==
    {[port |-> 0, proxyCommand |-> ProxyTemplate],
     [port |-> 5432, proxyCommand |-> <<>>]}
\* The clients and Options values the program runs with: a client without
\* any key and one that falls back to the default key, both with a proxy
\* command, and a client with signers of its own and a port.
Worlds ==
    {w \in [keys : KeyChoices, options : OptionsChoices] :
        (w.keys.client = <<>>) <=> (w.options.proxyCommand # <<>>)}
\* Stream values SetStdio can be given ("nil" is the nil interface).
StdioChoices == {<<"nil","nil","nil">>, <<"in","out","err">>}
\* The calls made to Copy: argument list and whether Options are passed.
CopyCalls ==
    {[args |-> <<>>, withOptions |-> FALSE],
     [args |-> << <<"f">>, <<"w",":","f">> >>, withOptions |-> TRUE]}

\* ----------------------------------------------------------------- errors
NoError == "nil"
ErrNoKeys == "no private keys available"
ErrNotStarted == "command has not been started"
ErrCurrentUser == "getting current user"
ErrDial == "dial error"
ErrSpawn == "proxy spawn error"
ErrHandshake == "ssh: handshake failed"
ErrNewSession == "ssh: open session failed"
ErrAlreadyStarted == "ssh: session already started"
ErrSessNotStarted == "ssh: session not started"
ErrRequest == "ssh: request failed"
ErrExit == "ssh: remote exit error"
ErrSessClose == "session close error"
ErrConnClose == "connection close error"
ErrSignal == "signal error"
ErrStdioSet == "ssh: stream already set"
ErrPipeAfterStart == "ssh: pipe after process started"
ErrNotImplemented == "scp command is not implemented (OpenSSH scp not available in PATH)"

\* --------------------------------------------------------- string helpers
IsPrefixAt(s, i, old) ==
    /\ i + Len(old) - 1 <= Len(s)
    /\ \A k \in 1..Len(old) : s[i + k - 1] = old[k]

RECURSIVE ReplaceFrom(_, _, _, _)
ReplaceFrom(s, i, old, new) ==
    IF i > Len(s) THEN <<>>
    ELSE IF IsPrefixAt(s, i, old)
         THEN new \o ReplaceFrom(s, i + Len(old), old, new)
         ELSE <<s[i]>> \o ReplaceFrom(s, i + 1, old, new)

\* strings.Replace(s, old, new, -1) for a non-empty old.
Replace(s, old, new) == ReplaceFrom(s, 1, old, new)

\* Index of the first / last occurrence of character ch in s, 0 if absent.
IndexByte(s, ch) ==
    IF \E i \in 1..Len(s) : s[i] = ch
    THEN CHOOSE i \in 1..Len(s) : s[i] = ch /\ \A j \in 1..(i-1) : s[j] # ch
    ELSE 0

LastIndexByte(s, ch) ==
    IF \E i \in 1..Len(s) : s[i] = ch
    THEN CHOOSE i \in 1..Len(s) : s[i] = ch /\ \A j \in (i+1)..Len(s) : s[j] # ch
    ELSE 0

Digit(d) == <<"0","1","2","3","4","5","6","7","8","9">>[d + 1]

RECURSIVE Itoa(_)
\* strconv.Itoa for a non-negative integer.
Itoa(n) == IF n < 10 THEN <<Digit(n)>> ELSE Itoa(n \div 10) \o <<Digit(n % 10)>>

\* net.JoinHostPort: the host is bracketed when it contains ':' or '%'.
JoinHostPort(host, port) ==
    IF IndexByte(host, ":") > 0 \/ IndexByte(host, "%") > 0
    THEN <<"[">> \o host \o <<"]", ":">> \o port
    ELSE host \o <<":">> \o port

\* net.SplitHostPort: [host, port, err]; host and port are empty on error.
SplitHostPort(hostport) ==
    LET i == LastIndexByte(hostport, ":")
        bad == [host |-> <<>>, port |-> <<>>, err |-> TRUE]
        n == Len(hostport)
    IN  IF i = 0 THEN bad
        ELSE IF hostport[1] = "["
        THEN LET end == IndexByte(hostport, "]")
             IN  IF end = 0 \/ end + 1 # i THEN bad
                 ELSE IF IndexByte(SubSeq(hostport, 2, n), "[") > 0
                         \/ IndexByte(SubSeq(hostport, end + 1, n), "]") > 0
                 THEN bad
                 ELSE [host |-> SubSeq(hostport, 2, end - 1),
                       port |-> SubSeq(hostport, i + 1, n), err |-> FALSE]
        ELSE LET host == SubSeq(hostport, 1, i - 1)
             IN  IF IndexByte(host, ":") > 0 THEN bad
                 ELSE IF IndexByte(hostport, "[") > 0 \/ IndexByte(hostport, "]") > 0
                 THEN bad
                 ELSE [host |-> host, port |-> SubSeq(hostport, i + 1, n), err |-> FALSE]

\* A split at the last '@' instead of the first.
splitUserHost_Last(s) ==
    LET i == LastIndexByte(s, "@")
    IN  IF i > 0
        THEN [user |-> SubSeq(s, 1, i - 1), host |-> SubSeq(s, i + 1, Len(s))]
        ELSE [user |-> <<>>, host |-> s]

\* splitUserHost: strings.SplitN(s, "@", 2).
splitUserHost(s) ==
    LET i == IndexByte(s, "@")
    IN  IF i > 0
        THEN [user |-> SubSeq(s, 1, i - 1), host |-> SubSeq(s, i + 1, Len(s))]
        ELSE [user |-> <<>>, host |-> s]

RECURSIVE JoinWords(_)
JoinWords(ws) ==
    IF ws = <<>> THEN <<>>
    ELSE IF Len(ws) = 1 THEN ws[1]
    ELSE ws[1] \o <<" ">> \o JoinWords(Tail(ws))

\* utils.CommandString: the argv pre-joined into one shell command string.
CommandString(argv) == JoinWords(argv)

\* ------------------------------------------------------------------ state
VARIABLES
    clientSigners,  \* GoCryptoClient.signers
    defaultKeys,    \* what the default key source yields
    options,        \* the Options value callers pass to Command
    cmd,            \* the goCryptoCommand handle the caller holds
    attempts,       \* one record per sshDialWithProxy call: its resources
    established,    \* how many sessions the held handle has recorded so far
    last,           \* what the last operation did and returned
    pc,             \* where each execution context stands inside a call
    fn              \* a helper function applied on its own: input and result

vars == <<clientSigners, defaultKeys, options, cmd, attempts, established, last,
          pc, fn>>

\* The execution contexts that can call into one handle.
Contexts == {1, 2}

\* A context that is not inside a call; client and sess are the locals an
\* ensureSession in progress holds.
IdleContext == [at |-> "idle", op |-> "none", client |-> 0, sess |-> 0]

AllIdle == [t \in Contexts |-> IdleContext]

\* No helper function has been applied.
NoCall == [name |-> "none", in |-> <<>>, out |-> <<>>]

\* The default key source consulted when the client has no signers.
privateKeys == defaultKeys

\* The backing array a handle's proxyCommand slice points into.  A handle
\* built from the Options value shares the array with it.
ProxyArray(c, opts) == IF c.proxyCommand = "options" THEN opts.proxyCommand ELSE <<>>

Result(op, err) ==
    [op |-> op, err |-> err, dials |-> 0, opens |-> 0, static |-> "nil",
     argv |-> <<>>, request |-> <<>>, signals |-> 0, waits |-> 0, closes |-> 0,
     closed |-> <<>>]

\* ---------------------------------------------------------------- Command
\* Command without the test for an unset port in the Options.
NewCommand_NoDefault(host, argv, withOptions) ==
    LET signers == IF Len(clientSigners) = 0 THEN privateKeys ELSE clientSigners
        uh == splitUserHost(host)
        port == IF withOptions THEN options.port ELSE sshDefaultPort
    IN  [signers |-> signers,
         user |-> uh.user,
         addr |-> JoinHostPort(uh.host, Itoa(port)),
         command |-> CommandString(argv),
         proxyCommand |-> IF withOptions THEN "options" ELSE "nil",
         proxyLen |-> IF withOptions THEN Len(options.proxyCommand) ELSE 0,
         stdin |-> "nil", stdout |-> "nil", stderr |-> "nil",
         client |-> 0,
         sess |-> 0]

\* GoCryptoClient.Command: builds a handle; withOptions = FALSE is options == nil.
NewCommand(host, argv, withOptions) ==
    LET signers == IF Len(clientSigners) = 0 THEN privateKeys ELSE clientSigners
        uh == splitUserHost(host)
        port == IF withOptions /\ options.port # 0 THEN options.port ELSE sshDefaultPort
    IN  [signers |-> signers,
         user |-> uh.user,
         addr |-> JoinHostPort(uh.host, Itoa(port)),
         command |-> CommandString(argv),
         proxyCommand |-> IF withOptions THEN "options" ELSE "nil",
         proxyLen |-> IF withOptions THEN Len(options.proxyCommand) ELSE 0,
         stdin |-> "nil", stdout |-> "nil", stderr |-> "nil",
         client |-> 0,
         sess |-> 0]

\* A client, an Options value and a first handle made by Command.
Init ==
    /\ \E w \in Worlds :
           /\ clientSigners = w.keys.client
           /\ defaultKeys = w.keys.default
           /\ options = w.options
    /\ \E call \in CommandCalls : cmd = NewCommand(call.host, call.argv, call.withOptions)
    /\ attempts = <<>>
    /\ established = 0
    /\ last = Result("Command", NoError)
    /\ pc = AllIdle
    /\ fn = NoCall

\* The caller, done with the handle it holds (no live session), makes
\* another handle from the same client and Options and holds that one.
Command(host, argv, withOptions) ==
    /\ cmd.sess = 0
    /\ cmd' = NewCommand(host, argv, withOptions)
    /\ established' = 0
    /\ last' = Result("Command", NoError)
    /\ UNCHANGED <<pc, fn, clientSigners, defaultKeys, options, attempts>>

\* ------------------------------------------------------------------- Copy
\* A Copy that reports success.
Copy_Ok(args, withOptions) ==
    /\ last' = Result("Copy", NoError)
    /\ UNCHANGED <<pc, fn, clientSigners, defaultKeys, options, cmd, attempts, established>>

\* GoCryptoClient.Copy: unimplemented, whatever it is given.
Copy(args, withOptions) ==
    /\ last' = Result("Copy", ErrNotImplemented)
    /\ UNCHANGED <<pc, fn, clientSigners, defaultKeys, options, cmd, attempts, established>>

\* ------------------------------------------------------- sshDialWithProxy
\* What the environment does to one session establishment.
\* Each step of the establishment is reached only if the ones before it
\* succeeded, so the first failing step identifies the outcome.
AllOk == [user |-> TRUE, stream |-> TRUE, handshake |-> TRUE, session |-> TRUE]

EnvOutcomes ==
    {AllOk,
     [AllOk EXCEPT !.user = FALSE],
     [AllOk EXCEPT !.stream = FALSE],
     [AllOk EXCEPT !.handshake = FALSE],
     [AllOk EXCEPT !.session = FALSE]}

\* The proxy-command substitution loop: it writes every substituted
\* argument back into the slice it was given.
SubstituteArg(arg, host, port, user) ==
    LET a1 == Replace(arg, <<"%","h">>, host)
        a2 == IF port # <<>> THEN Replace(a1, <<"%","p">>, port) ELSE a1
    IN  Replace(a2, <<"%","r">>, user)

Substitute(proxyCommand, addr, user) ==
    LET hp == SplitHostPort(addr)
        host == IF hp.err THEN addr ELSE hp.host
        port == hp.port
    IN  [i \in 1..Len(proxyCommand) |-> SubstituteArg(proxyCommand[i], host, port, user)]

NoResources ==
    [kind |-> "tcp", stream |-> "none", pipeServer |-> "none",
     proc |-> "none", conn |-> "none", connCloses |-> 0]

\* sshDialWithProxy with the error check after ssh.NewClientConn dropped: a
\* failed handshake over the proxy pipe is returned as success.
sshDialWithProxy_Swallow(addr, proxyCommand, user, o) ==
    IF Len(proxyCommand) = 0
    THEN [err |-> IF ~o.stream THEN ErrDial ELSE IF ~o.handshake THEN ErrHandshake ELSE NoError,
          array |-> proxyCommand, argv |-> <<>>,
          res |-> [NoResources EXCEPT
                     !.stream = IF ~o.stream THEN "none"
                                ELSE IF ~o.handshake THEN "closed" ELSE "open",
                     !.conn = IF o.stream /\ o.handshake THEN "open" ELSE "none"]]
    ELSE LET argv == Substitute(proxyCommand, addr, user)
             piped == [NoResources EXCEPT !.kind = "proxy",
                                          !.stream = "open", !.pipeServer = "open"]
         IN  IF ~o.stream
             THEN [err |-> ErrSpawn, array |-> argv, argv |-> argv, res |-> piped]
             ELSE IF ~o.handshake
             THEN [err |-> NoError, array |-> argv, argv |-> argv,
                   res |-> [piped EXCEPT !.proc = "running", !.stream = "closed"]]
             ELSE [err |-> NoError, array |-> argv, argv |-> argv,
                   res |-> [piped EXCEPT !.proc = "running", !.conn = "open"]]

\* sshDialWithProxy(addr, proxyCommand, config): the error, the slice
\* contents it leaves behind and the resources it created.
sshDialWithProxy(addr, proxyCommand, user, o) ==
    IF Len(proxyCommand) = 0
    THEN \* sshDial("tcp", addr, config): a failed handshake closes the socket
         [err |-> IF ~o.stream THEN ErrDial ELSE IF ~o.handshake THEN ErrHandshake ELSE NoError,
          array |-> proxyCommand, argv |-> <<>>,
          res |-> [NoResources EXCEPT
                     !.stream = IF ~o.stream THEN "none"
                                ELSE IF ~o.handshake THEN "closed" ELSE "open",
                     !.conn = IF o.stream /\ o.handshake THEN "open" ELSE "none"]]
    ELSE LET argv == Substitute(proxyCommand, addr, user)
             piped == [NoResources EXCEPT !.kind = "proxy",
                                          !.stream = "open", !.pipeServer = "open"]
         IN  IF ~o.stream
             THEN \* cmd.Start() failed
                  [err |-> ErrSpawn, array |-> argv, argv |-> argv, res |-> piped]
             ELSE IF ~o.handshake
             THEN \* ssh.NewClientConn failed: it closes the stream it was given
                  [err |-> ErrHandshake, array |-> argv, argv |-> argv,
                   res |-> [piped EXCEPT !.proc = "running", !.stream = "closed"]]
             ELSE [err |-> NoError, array |-> argv, argv |-> argv,
                   res |-> [piped EXCEPT !.proc = "running", !.conn = "open"]]

\* ssh.Client.Close on the connection of attempt a.
CloseConn(a) ==
    [a EXCEPT !.conn = "closed", !.connCloses = @ + 1, !.stream = "closed"]

\* ssh.Session.Close on the session of attempt a.  The channel is gone:
\* what it carried (streams, remote command) is dropped with it.
CloseSess(a) ==
    [a EXCEPT !.sess = "closed", !.sessCloses = @ + 1,
              !.stdin = "nil", !.stdout = "nil", !.stderr = "nil",
              !.started = FALSE, !.remote = "none"]

NoSession ==
    [sess |-> "none", sessCloses |-> 0, stdin |-> "nil", stdout |-> "nil",
     stderr |-> "nil", started |-> FALSE, remote |-> "none"]

Attempt(res, s) ==
    [kind |-> res.kind, stream |-> res.stream,
     pipeServer |-> res.pipeServer, proc |-> res.proc, conn |-> res.conn,
     connCloses |-> res.connCloses,
     sess |-> s.sess, sessCloses |-> s.sessCloses, stdin |-> s.stdin,
     stdout |-> s.stdout, stderr |-> s.stderr, started |-> s.started,
     remote |-> s.remote]

\* ---------------------------------------------------------- ensureSession
\* goCryptoCommand.ensureSession on handle c under environment outcome o:
\* the handle, the Options array and the attempts it leaves, and its result
\* (sess is the session returned, dials and opens count the calls made to
\* sshDialWithProxy and the sessions recorded).
Unchanged(c, err) ==
    [c |-> c, opts |-> options, atts |-> attempts, sess |-> c.sess,
     err |-> err, dials |-> 0, opens |-> 0, argv |-> <<>>]

\* The credentials check left out.
NoKeys_Never(c) == FALSE

\* The credentials check that precedes every dial.
NoKeys(c) == Len(c.signers) = 0

\* ensureSession storing c.client before the session is opened.
establish_ClientFirst(c, o) ==
        IF NoKeys(c) THEN Unchanged(c, ErrNoKeys)
        ELSE IF c.user = <<>> /\ ~o.user THEN Unchanged(c, ErrCurrentUser)
        ELSE
        LET c1 == IF c.user = <<>> THEN [c EXCEPT !.user = CurrentUsername] ELSE c
            slice == SubSeq(ProxyArray(c, options), 1, c.proxyLen)
            d == sshDialWithProxy(c1.addr, slice, c1.user, o)
            opts1 == IF c.proxyCommand = "options"
                     THEN [options EXCEPT !.proxyCommand = d.array]
                     ELSE options
            n == Len(attempts) + 1
        IN  IF d.err # NoError
            THEN [c |-> c1, opts |-> opts1,
                  atts |-> Append(attempts, Attempt(d.res, NoSession)),
                  sess |-> 0, err |-> d.err, dials |-> 1, opens |-> 0, argv |-> d.argv]
            ELSE IF ~o.session
            THEN \* client.NewSession() failed: client.Close()
                 [c |-> [c1 EXCEPT !.client = n], opts |-> opts1,
                  atts |-> Append(attempts, Attempt(CloseConn(d.res), NoSession)),
                  sess |-> 0, err |-> ErrNewSession, dials |-> 1, opens |-> 0,
                  argv |-> d.argv]
            ELSE [c |-> [c1 EXCEPT !.client = n, !.sess = n],
                  opts |-> opts1,
                  atts |-> Append(attempts,
                              Attempt(d.res,
                                  [NoSession EXCEPT !.sess = "open",
                                                    !.stdin = c1.stdin,
                                                    !.stdout = c1.stdout,
                                                    !.stderr = c1.stderr])),
                  sess |-> n, err |-> NoError, dials |-> 1, opens |-> 1, argv |-> d.argv]

\* The body of ensureSession past the cached-session check.
establish(c, o) ==
        IF NoKeys(c) THEN Unchanged(c, ErrNoKeys)
        ELSE IF c.user = <<>> /\ ~o.user THEN Unchanged(c, ErrCurrentUser)
        ELSE
        LET c1 == IF c.user = <<>> THEN [c EXCEPT !.user = CurrentUsername] ELSE c
            slice == SubSeq(ProxyArray(c, options), 1, c.proxyLen)
            d == sshDialWithProxy(c1.addr, slice, c1.user, o)
            opts1 == IF c.proxyCommand = "options"
                     THEN [options EXCEPT !.proxyCommand = d.array]
                     ELSE options
            n == Len(attempts) + 1
        IN  IF d.err # NoError
            THEN [c |-> c1, opts |-> opts1,
                  atts |-> Append(attempts, Attempt(d.res, NoSession)),
                  sess |-> 0, err |-> d.err, dials |-> 1, opens |-> 0, argv |-> d.argv]
            ELSE IF ~o.session
            THEN \* client.NewSession() failed: client.Close()
                 [c |-> c1, opts |-> opts1,
                  atts |-> Append(attempts, Attempt(CloseConn(d.res), NoSession)),
                  sess |-> 0, err |-> ErrNewSession, dials |-> 1, opens |-> 0,
                  argv |-> d.argv]
            ELSE [c |-> [c1 EXCEPT !.client = n, !.sess = n],
                  opts |-> opts1,
                  atts |-> Append(attempts,
                              Attempt(d.res,
                                  [NoSession EXCEPT !.sess = "open",
                                                    !.stdin = c1.stdin,
                                                    !.stdout = c1.stdout,
                                                    !.stderr = c1.stderr])),
                  sess |-> n, err |-> NoError, dials |-> 1, opens |-> 1, argv |-> d.argv]

\* ensureSession without the cached-session check.
ensureSession_NoCache(c, o) == establish(c, o)

ensureSession(c, o) ==
    IF c.sess # 0 THEN Unchanged(c, NoError) ELSE establish(c, o)

CloseErrs0 == {NoError, ErrSessClose}

CloseErrs1 == {NoError, ErrConnClose}

\* The outcomes an ensureSession call on handle c can meet: none of the
\* environment is consulted when the session is cached or the keys are
\* missing, and user.Current() is called only for an empty user.
Outcomes(c) ==
    IF c.sess # 0 \/ NoKeys(c) THEN {AllOk}
    ELSE IF c.user # <<>> THEN {o \in EnvOutcomes : o.user}
    ELSE EnvOutcomes

\* Whether the remote side accepts the request of a Start: asked only
\* when a request is sent.
Accepts(c, o) ==
    IF c.sess # 0 /\ attempts[c.sess].started THEN {TRUE}
    ELSE IF c.sess = 0 /\ (NoKeys(c) \/ o # AllOk) THEN {TRUE}
    ELSE BOOLEAN

\* The results the two closes of a Close can have: nothing is closed on a
\* handle without session.
CloseOutcomes(c) ==
    IF c.sess = 0 THEN {<<NoError, NoError>>} ELSE CloseErrs0 \X CloseErrs1

\* An ensureSession call may dial only while the dial budget lasts.
CanEnsure == cmd.sess # 0 \/ Len(cmd.signers) = 0 \/ Len(attempts) < MaxDials

\* ------------------------------------------------------------------ Start
\* ssh.Session.Shell / ssh.Session.Start(cmd) on attempt a; ok is whether
\* the remote side accepts the request.
SessionStart(a, request, ok) ==
    IF a.started THEN [a |-> a, err |-> ErrAlreadyStarted, sent |-> <<>>]
    ELSE IF ~ok THEN [a |-> a, err |-> ErrRequest, sent |-> request]
    ELSE [a |-> [a EXCEPT !.started = TRUE, !.remote = "running"],
          err |-> NoError, sent |-> request]

\* A Start that asks for a shell whatever the command string is.
StartRequest_Shell(c) == <<"shell">>

\* The request Start issues: a shell for an empty command string, otherwise
\* an exec of the command string.
StartRequest(c) ==
    IF c.command = <<>> THEN <<"shell">> ELSE <<"exec", c.command>>

Start(o, ok) ==
    /\ CanEnsure
    /\ \E e \in {ensureSession(cmd, o)} :
           IF e.err # NoError
           THEN /\ cmd' = e.c
                /\ established' = established + e.opens
                /\ options' = e.opts
                /\ attempts' = e.atts
                /\ last' = [Result("Start", e.err) EXCEPT
                              !.dials = e.dials, !.opens = e.opens, !.argv = e.argv]
           ELSE LET r == SessionStart(e.atts[e.sess], StartRequest(e.c), ok)
                IN  /\ cmd' = e.c
                    /\ established' = established + e.opens
                    /\ options' = e.opts
                    /\ attempts' = [e.atts EXCEPT ![e.sess] = r.a]
                    /\ last' = [Result("Start", r.err) EXCEPT
                                  !.dials = e.dials, !.opens = e.opens, !.argv = e.argv,
                                  !.request = r.sent]
    /\ UNCHANGED <<pc, fn, clientSigners, defaultKeys>>

\* ------------------------------------------------------------------ Close
\* goCryptoCommand.Close on handle record c: e0 and e1 are the results of
\* closing the session and the connection.
\* Close that forgets to close the connection.
CloseHandle_KeepConn(c, atts, e0, e1) ==
    IF c.sess = 0
    THEN [c |-> c, atts |-> atts, err |-> NoError, closes |-> 0, log |-> <<>>]
    ELSE [c |-> [c EXCEPT !.sess = 0, !.client = 0],
          atts |-> [atts EXCEPT ![c.sess] = CloseSess(@)],
          err |-> e0,
          closes |-> 1,
          log |-> << <<"sess", e0>> >>]

\* Close that does not forget the session and connection it has closed.
CloseHandle_NoReset(c, atts, e0, e1) ==
    IF c.sess = 0
    THEN [c |-> c, atts |-> atts, err |-> NoError, closes |-> 0, log |-> <<>>]
    ELSE LET a1 == [atts EXCEPT ![c.sess] = CloseSess(@)]
             a2 == [a1 EXCEPT ![c.client] = CloseConn(@)]
         IN  [c |-> c,
              atts |-> a2,
              err |-> IF e0 = NoError THEN e1 ELSE e0,
              closes |-> 2,
              log |-> << <<"sess", e0>>, <<"conn", e1>> >>]

\* Close that prefers the error of the connection close.
CloseHandle_ConnError(c, atts, e0, e1) ==
    IF c.sess = 0
    THEN [c |-> c, atts |-> atts, err |-> NoError, closes |-> 0, log |-> <<>>]
    ELSE LET a1 == [atts EXCEPT ![c.sess] = CloseSess(@)]
             a2 == [a1 EXCEPT ![c.client] = CloseConn(@)]
         IN  [c |-> [c EXCEPT !.sess = 0, !.client = 0],
              atts |-> a2,
              err |-> IF e1 = NoError THEN e0 ELSE e1,
              closes |-> 2,
              log |-> << <<"sess", e0>>, <<"conn", e1>> >>]

\* goCryptoCommand.Close on handle record c with the attempts atts: the
\* handle and attempts it leaves, its result, and the closes it made in
\* order, each with its outcome.

CloseHandle(c, atts, e0, e1) ==
    IF c.sess = 0
    THEN [c |-> c, atts |-> atts, err |-> NoError, closes |-> 0, log |-> <<>>]
    ELSE LET a1 == [atts EXCEPT ![c.sess] = CloseSess(@)]
             a2 == [a1 EXCEPT ![c.client] = CloseConn(@)]
         IN  [c |-> [c EXCEPT !.sess = 0, !.client = 0],
              atts |-> a2,
              err |-> IF e0 = NoError THEN e1 ELSE e0,
              closes |-> 2,
              log |-> << <<"sess", e0>>, <<"conn", e1>> >>]

Close(e0, e1) ==
    /\ \E r \in {CloseHandle(cmd, attempts, e0, e1)} :
           /\ cmd' = r.c
           /\ attempts' = r.atts
           /\ last' = [Result("Close", r.err) EXCEPT !.closes = r.closes,
                                                     !.closed = r.log]
    /\ UNCHANGED <<pc, fn, clientSigners, defaultKeys, options, established>>

\* ------------------------------------------------------------------- Wait
Terminated(a) == a.remote \in {"exit0", "exitN", "signaled"}

\* ssh.Session.Wait on attempt a: the remote wait outcome.
SessionWait(a) ==
    IF ~a.started THEN ErrSessNotStarted
    ELSE IF a.remote = "exit0" THEN NoError ELSE ErrExit

\* A Wait that does not block on the remote command.
WaitReturns_Early(e0, e1) ==
    /\ IF cmd.sess = 0
       THEN /\ last' = Result("Wait", ErrNotStarted)
            /\ UNCHANGED <<cmd, attempts>>
       ELSE \E r \in {CloseHandle(cmd, attempts, e0, e1)} :
                   /\ cmd' = r.c
                   /\ attempts' = r.atts
                   /\ last' = [Result("Wait", SessionWait(attempts[cmd.sess])) EXCEPT
                                 !.waits = 1, !.closes = r.closes]
    /\ UNCHANGED <<fn, clientSigners, defaultKeys, options, established>>

\* Wait returns: sess.Wait() has its outcome once the remote command has
\* terminated (at once on a session never started), then Close runs.
WaitReturns(e0, e1) ==
    /\ IF cmd.sess = 0
       THEN /\ last' = Result("Wait", ErrNotStarted)
            /\ UNCHANGED <<cmd, attempts>>
       ELSE /\ attempts[cmd.sess].started => Terminated(attempts[cmd.sess])
            /\ \E r \in {CloseHandle(cmd, attempts, e0, e1)} :
                   /\ cmd' = r.c
                   /\ attempts' = r.atts
                   /\ last' = [Result("Wait", SessionWait(attempts[cmd.sess])) EXCEPT
                                 !.waits = 1, !.closes = r.closes]
    /\ UNCHANGED <<fn, clientSigners, defaultKeys, options, established>>

\* Wait as one step of a single caller: it blocks until it can return.
Wait(e0, e1) == WaitReturns(e0, e1) /\ UNCHANGED pc

\* ------------------------------------------------------------------- Kill
\* Kill without the no-session check.
Kill_NoCheck(ok) ==
    /\ last' = [Result("Kill", IF ok THEN NoError ELSE ErrSignal) EXCEPT !.signals = 1]
    /\ UNCHANGED <<pc, fn, clientSigners, defaultKeys, options, cmd, attempts, established>>

\* Kill that also tears the session and the connection down.
Kill_Closes(ok) ==
    /\ IF cmd.sess = 0
       THEN /\ last' = Result("Kill", ErrNotStarted)
            /\ UNCHANGED <<cmd, attempts>>
       ELSE /\ last' = [Result("Kill", IF ok THEN NoError ELSE ErrSignal) EXCEPT
                         !.signals = 1]
            /\ cmd' = CloseHandle(cmd, attempts, NoError, NoError).c
            /\ attempts' = CloseHandle(cmd, attempts, NoError, NoError).atts
    /\ UNCHANGED <<pc, fn, clientSigners, defaultKeys, options, established>>

Kill(ok) ==
    /\ IF cmd.sess = 0
       THEN last' = Result("Kill", ErrNotStarted)
       ELSE last' = [Result("Kill", IF ok THEN NoError ELSE ErrSignal) EXCEPT !.signals = 1]
    /\ UNCHANGED <<pc, fn, clientSigners, defaultKeys, options, cmd, attempts, established>>

\* --------------------------------------------------------------- SetStdio
\* SetStdio that also rewires the streams of the live session.
SetStdio_Live(io) ==
    /\ cmd' = [cmd EXCEPT !.stdin = io[1], !.stdout = io[2], !.stderr = io[3]]
    /\ attempts' = IF cmd.sess = 0 THEN attempts
                   ELSE [attempts EXCEPT ![cmd.sess].stdin = io[1],
                                         ![cmd.sess].stdout = io[2],
                                         ![cmd.sess].stderr = io[3]]
    /\ last' = Result("SetStdio", NoError)
    /\ UNCHANGED <<pc, fn, clientSigners, defaultKeys, options, established>>

SetStdio(io) ==
    /\ cmd' = [cmd EXCEPT !.stdin = io[1], !.stdout = io[2], !.stderr = io[3]]
    /\ last' = Result("SetStdio", NoError)
    /\ UNCHANGED <<pc, fn, clientSigners, defaultKeys, options, attempts, established>>

\* ------------------------------------------------------------------ pipes
\* ssh.Session.StdinPipe / StdoutPipe / StderrPipe on attempt a, whose
\* static stream of that name is cur.
SessionPipe(a, name, cur) ==
    IF cur # "nil" THEN [a |-> a, err |-> ErrStdioSet]
    ELSE IF a.started THEN [a |-> a, err |-> ErrPipeAfterStart]
    ELSE [a |-> a, err |-> NoError]

Static(a, name) ==
    IF name = "stdin" THEN a.stdin ELSE IF name = "stdout" THEN a.stdout ELSE a.stderr

Pipe(op, name, o) ==
    /\ CanEnsure
    /\ \E e \in {ensureSession(cmd, o)} :
           /\ cmd' = e.c
           /\ established' = established + e.opens
           /\ options' = e.opts
           /\ IF e.err # NoError
              THEN /\ attempts' = e.atts
                   /\ last' = [Result(op, e.err) EXCEPT
                              !.dials = e.dials, !.opens = e.opens, !.argv = e.argv]
              ELSE LET r == SessionPipe(e.atts[e.sess], name, Static(e.atts[e.sess], name))
                   IN  /\ attempts' = [e.atts EXCEPT ![e.sess] = r.a]
                       /\ last' = [Result(op, r.err) EXCEPT
                                     !.dials = e.dials, !.opens = e.opens, !.argv = e.argv,
                                     !.static = Static(e.atts[e.sess], name)]
    /\ UNCHANGED <<pc, fn, clientSigners, defaultKeys>>

StdinPipe(o) == Pipe("StdinPipe", "stdin", o)

StdoutPipe(o) == Pipe("StdoutPipe", "stdout", o)

StderrPipe(o) == Pipe("StderrPipe", "stderr", o)

\* ------------------------------------------------------------ environment
\* The remote command or shell of a started session terminates.
RemoteExit(i, how) ==
    /\ cmd.sess = i
    /\ attempts[i].sess = "open"
    /\ attempts[i].remote = "running"
    /\ attempts' = [attempts EXCEPT ![i].remote = how]
    /\ UNCHANGED <<pc, fn, clientSigners, defaultKeys, options, cmd, established, last>>

RemoteOutcomes == {"exit0", "exitN", "signaled"}

\* ------------------------------------------------------------------- Next
Next ==
    \/ \E call \in CommandCalls : Command(call.host, call.argv, call.withOptions)
    \/ \E call \in CopyCalls : Copy(call.args, call.withOptions)
    \/ \E o \in Outcomes(cmd) : \E ok \in Accepts(cmd, o) : Start(o, ok)
    \/ \E e \in CloseOutcomes(cmd) : Close(e[1], e[2])
    \/ \E e \in CloseOutcomes(cmd) : Wait(e[1], e[2])
    \/ \E ok \in (IF cmd.sess = 0 THEN {TRUE} ELSE BOOLEAN) : Kill(ok)
    \/ \E io \in StdioChoices : SetStdio(io)
    \/ \E o \in Outcomes(cmd) : StdinPipe(o)
    \/ \E o \in Outcomes(cmd) : StdoutPipe(o)
    \/ \E o \in Outcomes(cmd) : StderrPipe(o)
    \/ \E i \in 1..Len(attempts), how \in RemoteOutcomes : RemoteExit(i, how)

Spec == Init /\ [][Next]_vars

\* ------------------------------------------------- Wait as a blocking call
\* The single caller of the handle.
Caller == 1

Idle == pc = AllIdle

Waiting == pc[Caller].at = "wait"

\* The caller enters Wait.
WaitCall ==
    /\ Idle
    /\ pc' = [pc EXCEPT ![Caller] = [IdleContext EXCEPT !.at = "wait", !.op = "Wait"]]
    /\ UNCHANGED <<fn, clientSigners, defaultKeys, options, cmd, attempts,
                   established, last>>

\* The caller comes back from Wait.
WaitReturn(e0, e1) ==
    /\ Waiting
    /\ WaitReturns(e0, e1)
    /\ pc' = AllIdle

\* The single caller with Wait split into its call and its return; while
\* it is blocked in Wait only the remote side moves.
LiveNext ==
    \/ Idle /\ \E call \in CommandCalls : Command(call.host, call.argv, call.withOptions)
    \/ Idle /\ \E call \in CopyCalls : Copy(call.args, call.withOptions)
    \/ Idle /\ \E o \in Outcomes(cmd) : \E ok \in Accepts(cmd, o) : Start(o, ok)
    \/ Idle /\ \E e \in CloseOutcomes(cmd) : Close(e[1], e[2])
    \/ WaitCall
    \/ \E e \in CloseOutcomes(cmd) : WaitReturn(e[1], e[2])
    \/ Idle /\ \E ok \in (IF cmd.sess = 0 THEN {TRUE} ELSE BOOLEAN) : Kill(ok)
    \/ Idle /\ \E io \in StdioChoices : SetStdio(io)
    \/ Idle /\ \E o \in Outcomes(cmd) : StdinPipe(o)
    \/ Idle /\ \E o \in Outcomes(cmd) : StdoutPipe(o)
    \/ Idle /\ \E o \in Outcomes(cmd) : StderrPipe(o)
    \/ \E i \in 1..Len(attempts), how \in RemoteOutcomes : RemoteExit(i, how)

\* A client that has signers of its own and Options without proxy command.
LiveInit == Init /\ clientSigners # <<>> /\ options.proxyCommand = <<>>

\* A Wait that can return does return: the blocked caller is scheduled.
LiveSpec ==
    /\ LiveInit
    /\ [][LiveNext]_vars
    /\ WF_vars(\E e \in CloseErrs0 \X CloseErrs1 : WaitReturn(e[1], e[2]))

\* ------------------------------------- two contexts calling into one handle
\* ensureSession has no lock: the statements of two calls interleave.  Each
\* context runs its call in steps: the cached-session check (line 125), the
\* dial and session open (lines 128-154), the store of c.client (line 155),
\* the store of c.sess (line 156), the attaching of the streams to c.sess
\* (lines 157-159) and the body of the operation on the session returned.
ConcOps == {"Start", "StdoutPipe"}

\* A client with keys and a handle for a command, built with Options.
ConcInit ==
    /\ Init
    /\ cmd.signers # <<>>
    /\ cmd.command # <<>>
    /\ cmd.proxyCommand = "options"

\* Context t enters op and tests c.sess.
ConcCheck(t, op) ==
    /\ pc[t].at = "idle"
    /\ pc' = [pc EXCEPT ![t] = IF cmd.sess # 0
                                THEN [IdleContext EXCEPT !.at = "body", !.op = op,
                                                         !.sess = cmd.sess]
                                ELSE [IdleContext EXCEPT !.at = "dial", !.op = op]]
    /\ UNCHANGED <<fn, clientSigners, defaultKeys, options, cmd, attempts,
                   established, last>>

\* Context t, past the check, dials and opens a session whatever the
\* handle holds by now; the streams are attached later.
ConcDial(t, o) ==
    /\ pc[t].at = "dial"
    /\ Len(attempts) < MaxDials
    /\ \E e \in {establish([cmd EXCEPT !.stdin = "nil", !.stdout = "nil",
                                        !.stderr = "nil"], o)} :
           /\ cmd' = [cmd EXCEPT !.user = e.c.user]
           /\ options' = e.opts
           /\ attempts' = e.atts
           /\ IF e.err # NoError
              THEN /\ pc' = [pc EXCEPT ![t] = IdleContext]
                   /\ last' = [Result(pc[t].op, e.err) EXCEPT
                                 !.dials = e.dials, !.argv = e.argv]
              ELSE /\ pc' = [pc EXCEPT ![t].at = "client", ![t].client = e.sess,
                                       ![t].sess = e.sess]
                   /\ last' = last
    /\ UNCHANGED <<fn, clientSigners, defaultKeys, established>>

\* c.client = client
ConcRecordClient_CloseOld(t) ==
    /\ pc[t].at = "client"
    /\ cmd' = [cmd EXCEPT !.client = pc[t].client]
    /\ attempts' = IF cmd.client # 0 THEN [attempts EXCEPT ![cmd.client] = CloseConn(@)]
                   ELSE attempts
    /\ pc' = [pc EXCEPT ![t].at = "sess"]
    /\ UNCHANGED <<fn, clientSigners, defaultKeys, options, established, last>>

ConcRecordClient(t) ==
    /\ pc[t].at = "client"
    /\ cmd' = [cmd EXCEPT !.client = pc[t].client]
    /\ pc' = [pc EXCEPT ![t].at = "sess"]
    /\ UNCHANGED <<fn, clientSigners, defaultKeys, options, attempts, established, last>>

\* c.sess = sess
ConcRecordSess(t) ==
    /\ pc[t].at = "sess"
    /\ cmd' = [cmd EXCEPT !.sess = pc[t].sess]
    /\ established' = established + 1
    /\ pc' = [pc EXCEPT ![t].at = "stdio"]
    /\ UNCHANGED <<fn, clientSigners, defaultKeys, options, attempts, last>>

\* c.sess.Stdin = c.stdin and so on: c.sess is read again.
ConcAttach(t) ==
    /\ pc[t].at = "stdio"
    /\ attempts' = [attempts EXCEPT ![cmd.sess].stdin = cmd.stdin,
                                    ![cmd.sess].stdout = cmd.stdout,
                                    ![cmd.sess].stderr = cmd.stderr]
    /\ pc' = [pc EXCEPT ![t].at = "body"]
    /\ UNCHANGED <<fn, clientSigners, defaultKeys, options, cmd, established, last>>

\* The operation's own work on the session ensureSession returned.
ConcBody(t, ok) ==
    /\ pc[t].at = "body"
    /\ LET a == attempts[pc[t].sess]
           r == IF pc[t].op = "Start" THEN SessionStart(a, StartRequest(cmd), ok)
                ELSE [a |-> SessionPipe(a, "stdout", a.stdout).a,
                      err |-> SessionPipe(a, "stdout", a.stdout).err, sent |-> <<>>]
       IN  /\ attempts' = [attempts EXCEPT ![pc[t].sess] = r.a]
           /\ last' = [Result(pc[t].op, r.err) EXCEPT !.request = r.sent]
    /\ pc' = [pc EXCEPT ![t] = IdleContext]
    /\ UNCHANGED <<fn, clientSigners, defaultKeys, options, cmd, established>>

\* Close and Wait are called once every call in progress has returned.
ConcNext ==
    \/ \E t \in Contexts, op \in ConcOps : ConcCheck(t, op)
    \/ \E t \in Contexts : \E o \in {x \in EnvOutcomes : cmd.user # <<>> => x.user} :
           ConcDial(t, o)
    \/ \E t \in Contexts : ConcRecordClient(t)
    \/ \E t \in Contexts : ConcRecordSess(t)
    \/ \E t \in Contexts : ConcAttach(t)
    \/ \E t \in Contexts, ok \in BOOLEAN : ConcBody(t, ok)
    \/ Idle /\ \E e \in CloseOutcomes(cmd) : Close(e[1], e[2])
    \/ Idle /\ \E e \in CloseOutcomes(cmd) : Wait(e[1], e[2])
    \/ \E i \in 1..Len(attempts), how \in RemoteOutcomes : RemoteExit(i, how)

ConcSpec == ConcInit /\ [][ConcNext]_vars

\* ------------------------------------------- helper functions on their own
\* The characters host strings are made of: a letter, the separators the
\* helpers look for, and the characters of the proxy-command tokens.
FnAlphabet == {"a", "@", ":", "%", "r"}

Strings(n) == UNION {[1..k -> FnAlphabet] : k \in 0..n}

\* The host strings Command is called with.
FnInputs ==
    Strings(MaxLen) \cup {<<"d","b">>, <<"r","@","d","b">>, <<"d","b",":","7">>}

\* The Options values Command is called with.
FnOptions ==
    OptionsChoices \cup {[port |-> 5432, proxyCommand |-> <<<<"n","c">>, <<"%","h">>, <<"%","p">>>>]}

FnInit ==
    /\ clientSigners = <<"k1">>
    /\ defaultKeys = <<>>
    /\ options \in FnOptions
    /\ cmd = NewCommand(<<"w">>, <<>>, FALSE)
    /\ attempts = <<>>
    /\ established = 0
    /\ last = Result("Command", NoError)
    /\ pc = AllIdle
    /\ fn \in {[NoCall EXCEPT !.in = s] : s \in FnInputs}

\* splitUserHost(s) applied to the host string.
FnSplitUserHost ==
    /\ fn.name = "none"
    /\ fn' = [fn EXCEPT !.name = "splitUserHost",
                        !.out = <<splitUserHost(fn.in).user, splitUserHost(fn.in).host>>]
    /\ UNCHANGED <<clientSigners, defaultKeys, options, cmd, attempts, established,
                   last, pc>>

\* Command(host, nil, options) applied to the host string.
FnCommand(withOptions) ==
    /\ fn.name = "none"
    /\ cmd' = NewCommand(fn.in, <<>>, withOptions)
    /\ fn' = [fn EXCEPT !.name = "Command"]
    /\ UNCHANGED <<clientSigners, defaultKeys, options, attempts, established, last, pc>>

\* The substitution loop of sshDialWithProxy applied to the proxy command
\* of the handle Command has built, with the user ensureSession passes.
FnSubstitute ==
    /\ fn.name = "Command"
    /\ cmd.proxyLen > 0
    /\ fn' = [fn EXCEPT !.name = "Substitute",
                        !.out = Substitute(ProxyArray(cmd, options), cmd.addr,
                                           IF cmd.user = <<>> THEN CurrentUsername
                                           ELSE cmd.user)]
    /\ UNCHANGED <<clientSigners, defaultKeys, options, cmd, attempts, established,
                   last, pc>>

FnNext ==
    \/ FnSplitUserHost
    \/ \E withOptions \in BOOLEAN : FnCommand(withOptions)
    \/ FnSubstitute

FnSpec == FnInit /\ [][FnNext]_vars

\* ================================================================= claims
EstablishOps == {"Start", "StdinPipe", "StdoutPipe", "StderrPipe"}

\* The step is a move of the environment, not a call on the handle.
EnvStep == \E i \in 1..Len(attempts), how \in RemoteOutcomes : RemoteExit(i, how)

\* The step is a call of one of the operations ops.
Called(ops) == last'.op \in ops /\ ~EnvStep

NoCredentials == Len(clientSigners) = 0 /\ Len(defaultKeys) = 0

Streams(a) == <<a.stdin, a.stdout, a.stderr>>

\* C1: on a handle with no live session (never started, or closed by Close
\* or Wait) Wait and Kill return "command has not been started", make no
\* dial, no signal, no wait and no close, and leave the handle, the sessions
\* and the Options as they were.
C1_NotStarted ==
    [][(cmd.sess = 0 /\ Called({"Wait", "Kill"})) =>
          /\ last'.err = ErrNotStarted
          /\ last'.dials = 0 /\ last'.signals = 0 /\ last'.waits = 0 /\ last'.closes = 0
          /\ UNCHANGED <<cmd, attempts, options, established>>]_vars

C1_Witness ==
    /\ last.op = "Kill" /\ last.err = ErrNotStarted
    /\ established = 1 /\ cmd.sess = 0

\* C2: a Wait on a handle with a live session closes that session and its
\* connection, each exactly once, leaves the handle without session and
\* connection, and returns the outcome of the remote wait, never the result
\* of the close.
C2_WaitCloses ==
    [][(cmd.sess # 0 /\ Called({"Wait"})) =>
          /\ attempts'[cmd.sess].sess = "closed" /\ attempts'[cmd.sess].sessCloses = 1
          /\ attempts'[cmd.client].conn = "closed" /\ attempts'[cmd.client].connCloses = 1
          /\ attempts'[cmd.client].stream = "closed"
          /\ last'.closes = 2 /\ last'.waits = 1
          /\ cmd'.sess = 0 /\ cmd'.client = 0
          /\ last'.err = IF ~attempts[cmd.sess].started THEN ErrSessNotStarted
                         ELSE IF attempts[cmd.sess].remote = "exit0" THEN NoError
                         ELSE ErrExit
          /\ last'.err \notin {ErrSessClose, ErrConnClose}]_vars

C2_Witness ==
    /\ last.op = "Wait" /\ last.err = ErrExit /\ last.closes = 2
    /\ cmd.sess = 0 /\ cmd.client = 0

\* C3: a Close directly after a Close or a Wait, or on a handle that never
\* connected, returns no error and closes nothing; no session and no
\* connection is ever closed twice.
C3_CloseIdempotent ==
    /\ [](\A i \in 1..Len(attempts) :
             attempts[i].sessCloses <= 1 /\ attempts[i].connCloses <= 1)
    /\ [][((last.op \in {"Close", "Wait"} \/ established = 0) /\ Called({"Close"})) =>
             /\ last'.err = NoError
             /\ last'.closes = 0
             /\ UNCHANGED <<cmd, attempts, options, established>>]_vars

C3_Witness ==
    /\ last.op = "Close" /\ last.err = NoError /\ last.closes = 0
    /\ established = 1
    /\ \E i \in 1..Len(attempts) : attempts[i].sessCloses = 1 /\ attempts[i].connCloses = 1

\* C4: over the whole life of one handle at most one session is ever
\* established: a handle that had a session and was closed never gets
\* another one.
C4_ClosedIsTerminal == established <= 1

\* C5 as stated: Command never dials; every Start or pipe call on an Idle
\* handle makes exactly one dial and opens exactly one session; every such
\* call on a Connected handle makes no dial and keeps the session.
C5_Original ==
    [][/\ Called({"Command"}) => last'.dials = 0 /\ attempts' = attempts
       /\ (cmd.sess = 0 /\ Called(EstablishOps)) =>
             /\ last'.dials = 1 /\ last'.opens = 1
             /\ Len(attempts') = Len(attempts) + 1
       /\ (cmd.sess # 0 /\ Called(EstablishOps)) =>
             /\ last'.dials = 0 /\ last'.opens = 0
             /\ Len(attempts') = Len(attempts)
             /\ cmd'.sess = cmd.sess /\ cmd'.client = cmd.client]_vars

\* C5 amended: Command never dials; a Start or pipe call on an Idle handle
\* makes at most one dial, and exactly one dial and one session open when
\* it leaves the handle Connected; every such call on a Connected handle
\* makes no dial and keeps the session.
C5_Lazy ==
    [][/\ Called({"Command"}) => last'.dials = 0 /\ attempts' = attempts
       /\ (cmd.sess = 0 /\ Called(EstablishOps)) =>
             /\ last'.dials <= 1 /\ last'.opens <= last'.dials
             /\ Len(attempts') = Len(attempts) + last'.dials
             /\ established' = established + last'.opens
             /\ cmd'.sess # 0 <=> last'.opens = 1
             /\ cmd'.sess # 0 =>
                   /\ last'.dials = 1
                   /\ cmd'.sess = Len(attempts')
                   /\ attempts'[cmd'.sess].sess = "open"
       /\ (cmd.sess # 0 /\ Called(EstablishOps)) =>
             /\ last'.dials = 0 /\ last'.opens = 0
             /\ Len(attempts') = Len(attempts)
             /\ cmd'.sess = cmd.sess /\ cmd'.client = cmd.client]_vars

C5_Witness ==
    /\ last.op \in EstablishOps /\ last.dials = 0 /\ last.err = NoError
    /\ cmd.sess = 1 /\ Len(attempts) = 1 /\ attempts[1].sess = "open"

\* C6: with no signers on the client and none from the default key source,
\* Start and the pipe calls fail with "no private keys available" without
\* a dial or a proxy spawn, and the handle stays Idle.
C6_NoCredentials ==
    /\ [](NoCredentials => cmd.sess = 0 /\ cmd.client = 0 /\ attempts = <<>>)
    /\ [][(NoCredentials /\ Called(EstablishOps)) =>
             /\ last'.err = ErrNoKeys
             /\ last'.dials = 0 /\ last'.opens = 0
             /\ UNCHANGED <<cmd, attempts, options, established>>]_vars

C6_Witness ==
    /\ NoCredentials
    /\ last.op \in EstablishOps /\ last.err = ErrNoKeys
    /\ cmd.proxyLen > 0

\* C7: when a session establishment has failed, nothing it opened is still
\* open: not the byte-stream handed to the handshake, not the proxy
\* process's end of the pipe, not the connection.
C7_NoLeakOnFailure ==
    \A i \in 1..Len(attempts) :
        attempts[i].sess = "none" =>
            /\ attempts[i].stream # "open"
            /\ attempts[i].pipeServer # "open"
            /\ attempts[i].conn # "open"

\* The errors a failed session establishment returns.
EstablishErrors ==
    {ErrNoKeys, ErrCurrentUser, ErrDial, ErrSpawn, ErrHandshake, ErrNewSession}

\* The error the dial attempt recorded as a failed with.
AttemptError(a) ==
    IF a.conn = "closed" THEN ErrNewSession
    ELSE IF a.kind = "tcp" THEN (IF a.stream = "none" THEN ErrDial ELSE ErrHandshake)
    ELSE IF a.proc = "none" THEN ErrSpawn ELSE ErrHandshake

\* The call left no open connection behind: the establishment failed.
NoConnection ==
    Len(attempts') = Len(attempts) \/ attempts'[Len(attempts')].conn # "open"

\* C8: a Start or pipe call whose session establishment fails makes at most
\* one dial, returns that attempt's error, and records neither session nor
\* connection on the handle; a Wait or Kill that follows returns "command
\* has not been started" and a Close that follows does nothing.
C8_FailureNotRetried ==
    /\ [][(cmd.sess = 0 /\ Called(EstablishOps) /\ NoConnection) =>
             /\ last'.dials <= 1 /\ last'.opens = 0
             /\ Len(attempts') = Len(attempts) + last'.dials
             /\ cmd'.sess = 0 /\ cmd'.client = 0
             /\ established' = established
             /\ last'.err \in EstablishErrors
             /\ last'.dials = 0 <=> last'.err \in {ErrNoKeys, ErrCurrentUser}
             /\ last'.dials = 1 => last'.err = AttemptError(attempts'[Len(attempts')])]_vars
    /\ [][(cmd.sess = 0 /\ last.op \in EstablishOps /\ Called({"Wait", "Kill", "Close"})) =>
             /\ last'.err = IF last'.op = "Close" THEN NoError ELSE ErrNotStarted
             /\ last'.closes = 0 /\ last'.signals = 0 /\ last'.waits = 0 /\ last'.dials = 0
             /\ UNCHANGED <<cmd, attempts, options, established>>]_vars

C8_Witness ==
    /\ last.op = "Start" /\ last.err = ErrHandshake /\ last.dials = 1
    /\ cmd.sess = 0 /\ cmd.client = 0
    /\ attempts[Len(attempts)].kind = "proxy"
    /\ last.argv = <<<<"n","c">>, <<"d","b">>, <<"2","2">>, <<"r">>>>

\* C9: establishing a session never changes the proxy-command template the
\* Options value holds.
C9_OptionsImmutable == [][options' = options]_vars

\* C10: the session gets the streams the handle holds when the session is
\* established, and neither SetStdio nor any other call on a Connected
\* handle changes the streams of the live session.
C10_StdioAtEstablish ==
    [][/\ (cmd.sess = 0 /\ cmd'.sess # 0) =>
             Streams(attempts'[cmd'.sess]) = <<cmd.stdin, cmd.stdout, cmd.stderr>>
       /\ (cmd.sess # 0 /\ Called({"SetStdio"})) =>
             attempts' = attempts /\ cmd'.sess = cmd.sess
       /\ (cmd.sess # 0 /\ cmd'.sess = cmd.sess) =>
             Streams(attempts'[cmd.sess]) = Streams(attempts[cmd.sess])]_vars

C10_Witness ==
    /\ last.op = "SetStdio"
    /\ cmd.sess # 0
    /\ attempts[cmd.sess].sess = "open"
    /\ Streams(attempts[cmd.sess]) = <<"in", "out", "err">>
    /\ <<cmd.stdin, cmd.stdout, cmd.stderr>> = <<"nil", "nil", "nil">>

\* C11 as stated: every Start that finds or establishes a session issues
\* exactly one request on it, a shell request for an empty command string and
\* otherwise an exec request carrying the command string, and leaves the
\* handle Connected.
C11_Original ==
    [][(Called({"Start"}) /\ cmd'.sess # 0) =>
          /\ last'.request = IF cmd.command = <<>> THEN <<"shell">>
                              ELSE <<"exec", cmd.command>>
          /\ cmd.sess # 0 => cmd'.sess = cmd.sess]_vars

\* The session the handle holds has already been started.
AlreadyStarted == cmd.sess # 0 /\ attempts[cmd.sess].started

\* C11 amended: a Start that finds or establishes a session that has not been
\* started yet issues exactly one request on it, a shell request for an empty
\* command string and otherwise an exec request carrying the command string;
\* when the request is accepted the remote command is running, not
\* terminated, as Start returns.  A Start on a session already started
\* issues no request and returns an error.  Either way the handle stays
\* Connected, with the session it had.
C11_StartRequest ==
    [][(Called({"Start"}) /\ cmd'.sess # 0) =>
          /\ cmd.sess # 0 => cmd'.sess = cmd.sess /\ cmd'.client = cmd.client
          /\ attempts'[cmd'.sess].sess = "open"
          /\ cmd'.command = cmd.command
          /\ ~AlreadyStarted =>
                /\ last'.request = IF cmd.command = <<>> THEN <<"shell">>
                                    ELSE <<"exec", cmd.command>>
                /\ last'.err \in {NoError, ErrRequest}
                /\ last'.err = NoError <=> attempts'[cmd'.sess].started
                /\ last'.err = NoError => attempts'[cmd'.sess].remote = "running"
                /\ last'.waits = 0
          /\ AlreadyStarted =>
                /\ last'.request = <<>>
                /\ last'.err = ErrAlreadyStarted
                /\ attempts' = attempts]_vars

C11_Witness ==
    /\ last.op = "Start" /\ last.err = NoError
    /\ last.request = <<"exec", <<"e", " ", "h", "i">>>>
    /\ cmd.sess # 0
    /\ attempts[cmd.sess].started /\ attempts[cmd.sess].remote = "running"

\* The caller is inside Wait on a handle whose session has been started.
WaitingOnStarted == Waiting /\ cmd.sess # 0 /\ attempts[cmd.sess].started

\* C12: a Wait on a started handle does not return before the remote command
\* has terminated; once the remote command has terminated the Wait
\* eventually returns; it returns an error when the remote exit status is
\* non-zero or the remote was signaled, and no error on exit status zero.
C12_WaitBlocks ==
    /\ [][(WaitingOnStarted /\ ~Waiting') =>
             /\ attempts[cmd.sess].remote \in {"exit0", "exitN", "signaled"}
             /\ last'.op = "Wait" /\ last'.waits = 1
             /\ last'.err = NoError <=> attempts[cmd.sess].remote = "exit0"
             /\ last'.err = ErrExit <=> attempts[cmd.sess].remote \in {"exitN", "signaled"}]_vars
    /\ [][(WaitingOnStarted /\ attempts[cmd.sess].remote = "running") =>
             Waiting']_vars
    /\ (WaitingOnStarted /\ attempts[cmd.sess].remote # "running") ~> ~Waiting

C12_Witness ==
    /\ ~Waiting
    /\ last.op = "Wait" /\ last.waits = 1 /\ last.err = NoError
    /\ \E i \in 1..Len(attempts) : attempts[i].sessCloses = 1

\* The hostname part and the user part of the host string Command was given.
HostPart(s) ==
    IF \E i \in 1..Len(s) : s[i] = "@"
    THEN LET i == CHOOSE i \in 1..Len(s) : s[i] = "@" /\ \A j \in 1..(i - 1) : s[j] # "@"
         IN  SubSeq(s, i + 1, Len(s))
    ELSE s

UserPart(s) ==
    IF \E i \in 1..Len(s) : s[i] = "@"
    THEN LET i == CHOOSE i \in 1..Len(s) : s[i] = "@" /\ \A j \in 1..(i - 1) : s[j] # "@"
         IN  SubSeq(s, 1, i - 1)
    ELSE <<>>

\* The decimal text of the ports in use.
PortText(port) ==
    IF port = 22 THEN <<"2","2">> ELSE <<"5","4","3","2">>

\* The port the Options resolve to for the handle.
TargetPort ==
    IF cmd.proxyCommand = "options" /\ options.port # 0 THEN options.port ELSE 22

RECURSIVE Expand(_, _, _, _, _)
\* arg from position i on, with every token replaced by what it stands for.
Expand(arg, i, host, port, user) ==
    IF i > Len(arg) THEN <<>>
    ELSE IF i < Len(arg) /\ arg[i] = "%" /\ arg[i + 1] = "h"
    THEN host \o Expand(arg, i + 2, host, port, user)
    ELSE IF i < Len(arg) /\ arg[i] = "%" /\ arg[i + 1] = "p"
    THEN port \o Expand(arg, i + 2, host, port, user)
    ELSE IF i < Len(arg) /\ arg[i] = "%" /\ arg[i + 1] = "r"
    THEN user \o Expand(arg, i + 2, host, port, user)
    ELSE <<arg[i]>> \o Expand(arg, i + 1, host, port, user)

\* C13: the argv spawned for a proxy command is the template with, in every
\* argument, every %h replaced by the target host, every %p by the target
\* port and every %r by the authenticating user, and nothing else changed.
C13_ProxySubstitution ==
    fn.name = "Substitute" =>
        LET template == options.proxyCommand
            user == IF UserPart(fn.in) = <<>> THEN CurrentUsername ELSE UserPart(fn.in)
        IN  fn.out = [i \in 1..Len(template) |->
                         Expand(template[i], 1, HostPart(fn.in), PortText(TargetPort), user)]

\* C14: a host string with an '@' is split at its first '@' into the user
\* before it and the hostname after it; a host string without '@' gives an
\* empty user and the whole string as hostname.
C14_SplitUserHost ==
    fn.name = "splitUserHost" =>
        LET s == fn.in
        IN  IF \E i \in 1..Len(s) : s[i] = "@"
            THEN \E i \in 1..Len(s) :
                    /\ s[i] = "@"
                    /\ \A j \in 1..(i - 1) : s[j] # "@"
                    /\ fn.out = <<SubSeq(s, 1, i - 1), SubSeq(s, i + 1, Len(s))>>
                    /\ fn.out[1] \o <<"@">> \o fn.out[2] = s
            ELSE fn.out = << <<>>, s >>

C14_Witness ==
    /\ fn.name = "splitUserHost"
    /\ fn.in = <<"a", "@", "@">>
    /\ fn.out = << <<"a">>, <<"@">> >>

\* C15: the port of a handle's target address is 22 when the Options are
\* absent or their port is 0 and the Options' port otherwise, whatever the
\* host string holds; the address is the hostname part of the host string
\* (in brackets when it holds a ':' or a '%') joined by ':' with that port.
C15_PortFromOptions ==
    fn.name = "Command" =>
        LET host == HostPart(fn.in)
            bracket == \E i \in 1..Len(host) : host[i] \in {":", "%"}
        IN  /\ cmd.addr = (IF bracket THEN <<"[">> \o host \o <<"]">> ELSE host)
                              \o <<":">> \o PortText(TargetPort)
            /\ cmd.user = UserPart(fn.in)
            /\ TargetPort \in {22, 5432}
            /\ TargetPort = 5432 <=> (cmd.proxyCommand = "options" /\ options.port = 5432)

C15_Witness ==
    /\ fn.name = "Command"
    /\ fn.in = <<"d", "b", ":", "7">>
    /\ options.port = 0
    /\ cmd.proxyCommand = "options"
    /\ cmd.addr = <<"[", "d", "b", ":", "7", "]", ":", "2", "2">>

\* C16: Copy returns the "not implemented" error for every argument list,
\* with or without Options, and changes neither the client, nor the Options,
\* nor the handle, nor any session or connection.
C16_CopyUnsupported ==
    [][Called({"Copy"}) =>
          /\ last'.err = ErrNotImplemented
          /\ last'.dials = 0 /\ last'.opens = 0 /\ last'.closes = 0
          /\ last'.request = <<>> /\ last'.signals = 0 /\ last'.waits = 0
          /\ UNCHANGED <<clientSigners, defaultKeys, options, cmd, attempts, established>>]_vars

C16_Witness ==
    /\ last.op = "Copy" /\ last.err = ErrNotImplemented
    /\ cmd.sess # 0 /\ attempts[cmd.sess].sess = "open"

\* Connection i is open and out of the handle's reach: the handle does not
\* record it and no call in progress is about to record it.
Orphan(i) ==
    /\ attempts[i].conn = "open"
    /\ cmd.client # i
    /\ \A t \in Contexts : ~(pc[t].at = "client" /\ pc[t].client = i)

\* C17: with two contexts making a first Start or pipe call on one Idle
\* handle, a context that has passed the cached-session check dials and
\* opens a session of its own even when the other has dialed meanwhile; a
\* connection is only ever closed by a Close or Wait of the handle that
\* records it at that time, so a connection whose record was overwritten
\* stays out of reach and open for good.
C17_ConcurrentFirstCalls ==
    /\ [][\A t \in Contexts :
             (pc[t].at = "dial" /\ pc'[t].at = "client") =>
                 /\ Len(attempts') = Len(attempts) + 1
                 /\ attempts'[Len(attempts')].conn = "open"
                 /\ attempts'[Len(attempts')].sess = "open"
                 /\ \A i \in 1..Len(attempts) : attempts'[i] = attempts[i]]_vars
    /\ [][\A i \in 1..Len(attempts) :
             (attempts[i].conn = "open" /\ attempts'[i].conn # "open") =>
                 /\ cmd.client = i
                 /\ pc = AllIdle
                 /\ last'.op \in {"Close", "Wait"}]_vars
    /\ [][\A i \in 1..Len(attempts) :
             Orphan(i) => Orphan(i)' /\ attempts'[i].connCloses = 0]_vars

\* Both contexts dialed, both calls have returned, the handle was closed:
\* one connection with its session is still open and nothing refers to it.
C17_Witness ==
    /\ pc = AllIdle
    /\ last.op \in {"Close", "Wait"} /\ last.closes = 2
    /\ cmd.sess = 0 /\ cmd.client = 0
    /\ Len(attempts) = 2
    /\ \E i, j \in 1..2 :
           /\ attempts[i].conn = "open" /\ attempts[i].connCloses = 0
           /\ attempts[j].conn = "closed" /\ attempts[j].connCloses = 1

\* C18: a Kill on a Connected handle sends one signal over the session and
\* changes nothing else: no dial, no close, the handle and every session
\* and connection as before; the Wait or Close that follows still closes
\* the session and the connection.
C18_KillFrame ==
    /\ [][(cmd.sess # 0 /\ Called({"Kill"})) =>
             /\ last'.signals = 1
             /\ last'.err \in {NoError, ErrSignal}
             /\ last'.dials = 0 /\ last'.opens = 0 /\ last'.closes = 0 /\ last'.waits = 0
             /\ UNCHANGED <<cmd, attempts, options, established>>
             /\ attempts'[cmd'.sess].sess = "open"
             /\ attempts'[cmd'.client].conn = "open"]_vars
    /\ [][(cmd.sess # 0 /\ last.op = "Kill" /\ Called({"Wait", "Close"})) =>
             /\ last'.closes = 2
             /\ attempts'[cmd.sess].sess = "closed"
             /\ attempts'[cmd.client].conn = "closed"
             /\ cmd'.sess = 0 /\ cmd'.client = 0]_vars

C18_Witness ==
    /\ last.op = "Kill" /\ last.signals = 1 /\ last.err = NoError
    /\ cmd.sess # 0 /\ cmd.client # 0
    /\ attempts[cmd.sess].started
    /\ attempts[cmd.sess].sess = "open" /\ attempts[cmd.client].conn = "open"

\* C19: a Close on a Connected handle closes the session, then the
\* connection, whatever the first close returns, and leaves the handle
\* without session and connection; it returns the error of the session
\* close if there is one, otherwise that of the connection close, otherwise
\* none.
C19_CloseErrors ==
    [][(cmd.sess # 0 /\ Called({"Close"})) =>
          /\ Len(last'.closed) = 2
          /\ last'.closed[1][1] = "sess" /\ last'.closed[2][1] = "conn"
          /\ attempts'[cmd.sess].sess = "closed" /\ attempts'[cmd.sess].sessCloses = 1
          /\ attempts'[cmd.client].conn = "closed" /\ attempts'[cmd.client].connCloses = 1
          /\ cmd'.sess = 0 /\ cmd'.client = 0
          /\ last'.err = IF last'.closed[1][2] # NoError THEN last'.closed[1][2]
                          ELSE last'.closed[2][2]
          /\ last'.closed[1][2] \in {NoError, ErrSessClose}
          /\ last'.closed[2][2] \in {NoError, ErrConnClose}]_vars

C19_Witness ==
    /\ last.op = "Close" /\ last.err = ErrSessClose
    /\ last.closed = << <<"sess", ErrSessClose>>, <<"conn", ErrConnClose>> >>
    /\ cmd.sess = 0 /\ cmd.client = 0
    /\ \E i \in 1..Len(attempts) : attempts[i].connCloses = 1 /\ attempts[i].sessCloses = 1

\* C20: with a single caller the handle holds a session exactly when it
\* holds a connection, the one the session runs on, after every operation.
C20_SessIffClient ==
    /\ cmd.sess # 0 <=> cmd.client # 0
    /\ cmd.sess = cmd.client
    /\ cmd.sess # 0 =>
          attempts[cmd.sess].sess = "open" /\ attempts[cmd.client].conn = "open"

C20_Witness ==
    /\ last.op \in EstablishOps /\ last.err = ErrNewSession
    /\ cmd.sess = 0 /\ cmd.client = 0
    /\ attempts[Len(attempts)].conn = "closed"

====
